---- MODULE Spec2Model ----
(***************************************************************************)
(* Model of holiday-sorter.py: the streaming XML record decoder            *)
(* (parse_large_xml), the call-handler classification (get_call_handlers), *)
(* the schedule join (resolve_schedules) and the main script.              *)
(*                                                                         *)
(* Python values.  A record (dict) is a function whose DOMAIN is the set   *)
(* of keys that are present.  A field value is a string; the Python value  *)
(* None (an XML element without text) is the token None below, which is    *)
(* no text of the model's alphabet.  A call that may raise returns         *)
(* [ok |-> TRUE, value |-> v] or [ok |-> FALSE, exc |-> name].             *)
(***************************************************************************)
EXTENDS Integers, Sequences, FiniteSets, TLC

VARIABLES
    pc,                        \* position of the script / of the function under check
    all_handlers,              \* get_call_handlers: the decoded call-handler records
    call_handlers,             \* the classified handlers (argument of the join)
    schedules,                 \* the decoded schedule records
    schedule_set_members_map,  \* schedule-set id -> member records
    concatenated_list,         \* resolve_schedules: the rows returned
    resolved_lists,            \* resolve_schedules: resolved_schedules of each row
    exc,                       \* the exception that ended the call, or "none"
    warnings,                  \* get_call_handlers: warnings logged, in order
    first_output,              \* the classification's first result (second pass)
    pass,                      \* number of the classification pass
    fetched_ids,               \* get_all_schedule_set_members: ids fetched
    report,                    \* lines written to the CSV file
    xml_doc,                   \* parse_large_xml: the document parsed
    xml_events,                \* parse_large_xml: the 'end' events still to come
    xml_name,                  \* parse_large_xml: element_name
    xml_cleared,               \* parse_large_xml: elements already cleared
    xml_records,               \* parse_large_xml: the records yielded so far
    xml_malformed              \* parse_large_xml: the stream ends in a ParseError

vars == <<pc, all_handlers, call_handlers, schedules, schedule_set_members_map,
          concatenated_list, resolved_lists, exc, warnings, first_output, pass,
          fetched_ids, report,
          xml_doc, xml_events, xml_name, xml_cleared, xml_records,
                   xml_malformed>>

(***************************************************************************)
(* Bounds of the model.                                                    *)
(***************************************************************************)
MaxHandlers == 2
MaxSchedules == 2
MaxMembers == 2
MaxRaw == 3
MaxItems == 2
MaxFields == 2

HttpOk == 200
HttpError == 500

(***************************************************************************)
(* Python values and calls.                                                *)
(***************************************************************************)
None == "<None>"

Ok(v) == [ok |-> TRUE, value |-> v]
Raise(e) == [ok |-> FALSE, exc |-> e]

\* dict.get(key, default); dict.get(key) is Get(d, key, None)
Get(d, k, default) == IF k \in DOMAIN d THEN d[k] ELSE default

\* truth value of a string or None
Truthy(v) == v # None /\ v # ""

\* str.lower() over the texts of the model; every text not listed is in
\* lower case already
Lower(s) ==
    CASE s = "TRUE" -> "true"
      [] s = "True" -> "true"
      [] s = "Operator" -> "operator"
      [] s = "Sales" -> "sales"
      [] OTHER -> s

\* str.strip() over the texts of the model; every text not listed has no
\* blank at either end
Strip(s) ==
    CASE s = " Operator " -> "Operator"
      [] OTHER -> s

\* the f-string conversion of a value
Format(v) == IF v = None THEN "None" ELSE v

SeqsUpTo(S, n) == UNION { [1..k -> S] : k \in 0..n }

Front(s) == SubSeq(s, 1, Len(s) - 1)
Last(s) == s[Len(s)]

(***************************************************************************)
(* resolve_schedules                                                       *)
(***************************************************************************)

\* as ScheduleMap, but the first schedule of an id keeps its place
RECURSIVE ScheduleMapFirstWins(_)
ScheduleMapFirstWins(scheds) ==
    IF scheds = <<>> THEN Ok(<<>>)
    ELSE LET before == ScheduleMapFirstWins(Front(scheds))
             schedule == Last(scheds)
         IN IF ~before.ok THEN before
            ELSE IF "ObjectId" \notin DOMAIN schedule \/ "DisplayName" \notin DOMAIN schedule
                 THEN Raise("KeyError")
                 ELSE Ok(before.value @@ (schedule["ObjectId"] :> schedule["DisplayName"]))

\* schedule_map = {schedule['ObjectId']: schedule['DisplayName'] for ...}
RECURSIVE ScheduleMap(_)
ScheduleMap(scheds) ==
    IF scheds = <<>> THEN Ok(<<>>)
    ELSE LET before == ScheduleMap(Front(scheds))
             schedule == Last(scheds)
         IN IF ~before.ok THEN before
            ELSE IF "ObjectId" \notin DOMAIN schedule \/ "DisplayName" \notin DOMAIN schedule
                 THEN Raise("KeyError")
                 ELSE Ok((schedule["ObjectId"] :> schedule["DisplayName"]) @@ before.value)

\* not member.get("Exclude", "false").lower() == "true"
NotExcluded(member) ==
    LET e == Get(member, "Exclude", "false")
    IN IF e = None THEN Raise("AttributeError")
       ELSE Ok(Lower(e) # "true")

\* the list comprehension resolved_schedules
RECURSIVE ResolvedSchedules(_, _)
ResolvedSchedules(members, schedule_map) ==
    IF members = <<>> THEN Ok(<<>>)
    ELSE LET before == ResolvedSchedules(Front(members), schedule_map)
             member == Last(members)
             keep == NotExcluded(member)
         IN IF ~before.ok THEN before
            ELSE IF ~keep.ok THEN keep
            ELSE IF ~keep.value THEN before
            ELSE IF "ScheduleObjectId" \notin DOMAIN member THEN Raise("KeyError")
            ELSE Ok(Append(before.value,
                           Get(schedule_map, member["ScheduleObjectId"], "Unknown Schedule")))

\* ", ".join(items)
RECURSIVE Join(_)
Join(items) ==
    IF \E i \in 1..Len(items) : items[i] = None THEN Raise("TypeError")
    ELSE IF Len(items) = 0 THEN Ok("")
    ELSE IF Len(items) = 1 THEN Ok(items[1])
    ELSE Ok(Join(Front(items)).value \o ", " \o Last(items))

Row(name, schedule) == [CallHandlerName |-> name, Schedule |-> schedule]

\* as ResolveHandler, without the test for an empty resolved_schedules
ResolveHandlerNoEmptyTest(handler, schedule_map, members_map) ==
    LET handler_name == Get(handler, "DisplayName", "Unnamed Handler")
        schedule_set_id == Get(handler, "ScheduleSetObjectId", None)
        schedule_set_members == Get(members_map, schedule_set_id, <<>>)
        resolved == ResolvedSchedules(schedule_set_members, schedule_map)
        none == [row |-> Row(handler_name, "No Schedule"), resolved |-> <<>>]
    IN IF ~Truthy(schedule_set_id) THEN Ok(none)
       ELSE IF schedule_set_members = <<>> THEN Ok(none)
       ELSE IF ~resolved.ok THEN resolved
       ELSE LET joined == Join(resolved.value)
            IN IF ~joined.ok THEN joined
               ELSE Ok([row |-> Row(handler_name, joined.value),
                        resolved |-> resolved.value])

\* one iteration of the loop over call_handlers: the row appended and the
\* list resolved_schedules it was made from (empty on the early exits)
ResolveHandler(handler, schedule_map, members_map) ==
    LET handler_name == Get(handler, "DisplayName", "Unnamed Handler")
        schedule_set_id == Get(handler, "ScheduleSetObjectId", None)
        schedule_set_members == Get(members_map, schedule_set_id, <<>>)
        resolved == ResolvedSchedules(schedule_set_members, schedule_map)
        none == [row |-> Row(handler_name, "No Schedule"), resolved |-> <<>>]
    IN IF ~Truthy(schedule_set_id) THEN Ok(none)
       ELSE IF schedule_set_members = <<>> THEN Ok(none)
       ELSE IF ~resolved.ok THEN resolved
       ELSE IF resolved.value = <<>> THEN Ok(none)
       ELSE LET joined == Join(resolved.value)
            IN IF ~joined.ok THEN joined
               ELSE Ok([row |-> Row(handler_name, joined.value),
                        resolved |-> resolved.value])

RECURSIVE ResolveLoop(_, _, _)
ResolveLoop(handlers, schedule_map, members_map) ==
    IF handlers = <<>> THEN Ok([rows |-> <<>>, lists |-> <<>>])
    ELSE LET before == ResolveLoop(Front(handlers), schedule_map, members_map)
             this == ResolveHandler(Last(handlers), schedule_map, members_map)
         IN IF ~before.ok THEN before
            ELSE IF ~this.ok THEN this
            ELSE Ok([rows |-> Append(before.value.rows, this.value.row),
                     lists |-> Append(before.value.lists, this.value.resolved)])

\* resolve_schedules(call_handlers, schedules, schedule_sets, schedule_set_members_map)
ResolveSchedules(handlers, scheds, members_map) ==
    LET schedule_map == ScheduleMap(scheds)
    IN IF ~schedule_map.ok THEN schedule_map
       ELSE ResolveLoop(handlers, schedule_map.value, members_map)

(***************************************************************************)
(* get_call_handlers: selection of the system handlers and deduplication   *)
(***************************************************************************)
SystemNames == {"auto attendant", "opening greeting", "operator"}

\* the condition of the list comprehension system_handlers; `or` evaluates
\* its operands left to right and stops at the first true one
IsSystemHandler(handler) ==
    LET undeletable == Get(handler, "Undeletable", "false")
        dtmf == Get(handler, "DtmfAccessId", None)
        name == Get(handler, "DisplayName", "")
    IN IF undeletable = None THEN Raise("AttributeError")
       ELSE IF Lower(undeletable) = "true" THEN Ok(TRUE)
       ELSE IF Truthy(dtmf) THEN Ok(TRUE)
       ELSE IF name = None THEN Raise("AttributeError")
       ELSE Ok(Lower(Strip(name)) \in SystemNames)

RECURSIVE SystemHandlers(_)
SystemHandlers(handlers) ==
    IF handlers = <<>> THEN Ok(<<>>)
    ELSE LET before == SystemHandlers(Front(handlers))
             handler == Last(handlers)
             selected == IsSystemHandler(handler)
         IN IF ~before.ok THEN before
            ELSE IF ~selected.ok THEN selected
            ELSE IF selected.value THEN Ok(Append(before.value, handler))
            ELSE before

\* composite_key = f"{DisplayName.strip().lower()}|{DtmfAccessId}"
CompositeKey(handler) ==
    LET name == Get(handler, "DisplayName", "")
        dtmf == Get(handler, "DtmfAccessId", "")
    IN IF name = None THEN Raise("AttributeError")
       ELSE Ok(Lower(Strip(name)) \o "|" \o Format(dtmf))

\* as Deduplicate, but a new handler is put in front of those kept
RECURSIVE DeduplicateInFront(_)
DeduplicateInFront(handlers) ==
    IF handlers = <<>> THEN Ok([keys |-> <<>>, values |-> <<>>, warnings |-> <<>>])
    ELSE LET before == DeduplicateInFront(Front(handlers))
             handler == Last(handlers)
             composite_key == CompositeKey(handler)
         IN IF ~before.ok THEN before
            ELSE IF ~composite_key.ok
            THEN [ok |-> FALSE, exc |-> composite_key.exc,
                  warnings |-> before.value.warnings]
            ELSE IF \A i \in 1..Len(before.value.keys) :
                        before.value.keys[i] # composite_key.value
            THEN Ok([keys |-> <<composite_key.value>> \o before.value.keys,
                     values |-> <<handler>> \o before.value.values,
                     warnings |-> before.value.warnings])
            ELSE Ok([keys |-> before.value.keys,
                     values |-> before.value.values,
                     warnings |-> Append(before.value.warnings,
                         [name |-> Get(handler, "DisplayName", "Unnamed Handler"),
                          key |-> composite_key.value])])

\* the loop over system_handlers: unique_handlers as the sequence of its keys
\* and of its values in insertion order, and the warnings logged; when the
\* key of a record raises (line 115), the warnings logged for the records
\* before it
RECURSIVE Deduplicate(_)
Deduplicate(handlers) ==
    IF handlers = <<>> THEN Ok([keys |-> <<>>, values |-> <<>>, warnings |-> <<>>])
    ELSE LET before == Deduplicate(Front(handlers))
             handler == Last(handlers)
             composite_key == CompositeKey(handler)
         IN IF ~before.ok THEN before
            ELSE IF ~composite_key.ok
            THEN [ok |-> FALSE, exc |-> composite_key.exc,
                  warnings |-> before.value.warnings]
            ELSE IF \A i \in 1..Len(before.value.keys) :
                        before.value.keys[i] # composite_key.value
            THEN Ok([keys |-> Append(before.value.keys, composite_key.value),
                     values |-> Append(before.value.values, handler),
                     warnings |-> before.value.warnings])
            ELSE Ok([keys |-> before.value.keys,
                     values |-> before.value.values,
                     warnings |-> Append(before.value.warnings,
                         [name |-> Get(handler, "DisplayName", "Unnamed Handler"),
                          key |-> composite_key.value])])

\* lines 103-126 of get_call_handlers, applied to the decoded records; the
\* selection (lines 104-109) is complete before the first warning can be
\* logged, so a raise in it leaves none
ClassifyHandlers(handlers) ==
    LET system_handlers == SystemHandlers(handlers)
    IN IF ~system_handlers.ok
       THEN [ok |-> FALSE, exc |-> system_handlers.exc, warnings |-> <<>>]
       ELSE Deduplicate(system_handlers.value)

(***************************************************************************)
(* Inputs of resolve_schedules.                                            *)
(***************************************************************************)
ResolveHandlers ==
    { [DisplayName |-> "Operator", ScheduleSetObjectId |-> "SS1"],
      [DisplayName |-> "Sales", Undeletable |-> "true", ScheduleSetObjectId |-> "SS2"],
      [DisplayName |-> "Sales", Undeletable |-> "true"],
      [Undeletable |-> "true", ScheduleSetObjectId |-> None] }

ResolveSchedulesIn ==
    { [ObjectId |-> "SC1", DisplayName |-> "Business Hours"],
      [ObjectId |-> "SC2", DisplayName |-> "Holidays"],
      [ObjectId |-> "SC1", DisplayName |-> "Weekend"],
      [DisplayName |-> "Holidays"] }

ResolveMembers ==
    { [ScheduleObjectId |-> "SC1", Exclude |-> "false"],
      [ScheduleObjectId |-> "SC2", Exclude |-> "true"],
      [ScheduleObjectId |-> "SC2", Exclude |-> "TRUE"],
      [ScheduleObjectId |-> "SC9"],
      [ScheduleObjectId |-> "SC1", Exclude |-> None],
      [Exclude |-> "false"] }

\* the member index: no key at all, or the one key "SS1"
ResolveIndexes ==
    {<<>>} \cup { ("SS1" :> ms) : ms \in SeqsUpTo(ResolveMembers, MaxMembers) }

InitResolve ==
    /\ pc = "resolve"
    /\ call_handlers \in SeqsUpTo(ResolveHandlers, MaxHandlers)
    /\ schedules \in SeqsUpTo(ResolveSchedulesIn, MaxSchedules)
    /\ schedule_set_members_map \in ResolveIndexes
    /\ all_handlers = <<>>
    /\ concatenated_list = <<>>
    /\ resolved_lists = <<>>
    /\ exc = "none"
    /\ warnings = <<>>
    /\ first_output = <<>>
    /\ pass = 0
    /\ fetched_ids = {}
    /\ report = <<>>
    /\ xml_doc = <<>>
    /\ xml_events = <<>>
    /\ xml_name = <<>>
    /\ xml_cleared = {}
    /\ xml_records = <<>>
    /\ xml_malformed = FALSE

\* the call of resolve_schedules
Resolve ==
    /\ pc = "resolve"
    /\ LET r == ResolveSchedules(call_handlers, schedules, schedule_set_members_map)
       IN IF r.ok
          THEN /\ concatenated_list' = r.value.rows
               /\ resolved_lists' = r.value.lists
               /\ pc' = "resolved"
               /\ exc' = exc
          ELSE /\ exc' = r.exc
               /\ pc' = "raised"
               /\ UNCHANGED <<concatenated_list, resolved_lists>>
    /\ UNCHANGED <<all_handlers, call_handlers, schedules, schedule_set_members_map,
                   warnings, first_output, pass, fetched_ids, report,
                   xml_doc, xml_events, xml_name, xml_cleared, xml_records,
                   xml_malformed>>

NextResolve == Resolve

SpecResolve == InitResolve /\ [][NextResolve]_vars

(***************************************************************************)
(* The classification of get_call_handlers on its own.                     *)
(***************************************************************************)
RawHandlers ==
    { [ObjectId |-> "H1", DisplayName |-> "Operator"],
      [ObjectId |-> "H2", DisplayName |-> " Operator ", Undeletable |-> "false"],
      [ObjectId |-> "H3", DisplayName |-> "Operator", DtmfAccessId |-> None],
      [ObjectId |-> "H4", DisplayName |-> "Sales", Undeletable |-> "TRUE"],
      [ObjectId |-> "H5", DisplayName |-> "Sales", DtmfAccessId |-> "100"],
      [ObjectId |-> "H6", DisplayName |-> "Sales", Undeletable |-> "false"],
      [ObjectId |-> "H7", DisplayName |-> "Sales", DtmfAccessId |-> None],
      [ObjectId |-> "H8", DisplayName |-> "Sales", Undeletable |-> None],
      [ObjectId |-> "H9", DisplayName |-> None, Undeletable |-> "true"],
      [ObjectId |-> "H10", Undeletable |-> "true"] }

InitClassify ==
    /\ pc = "classify"
    /\ all_handlers \in SeqsUpTo(RawHandlers, MaxRaw)
    /\ pass = 1
    /\ call_handlers = <<>>
    /\ schedules = <<>>
    /\ schedule_set_members_map = <<>>
    /\ concatenated_list = <<>>
    /\ resolved_lists = <<>>
    /\ exc = "none"
    /\ warnings = <<>>
    /\ first_output = <<>>
    /\ fetched_ids = {}
    /\ report = <<>>
    /\ xml_doc = <<>>
    /\ xml_events = <<>>
    /\ xml_name = <<>>
    /\ xml_cleared = {}
    /\ xml_records = <<>>
    /\ xml_malformed = FALSE

\* selection and deduplication of the decoded records (of the first result on
\* the second pass)
Classify ==
    /\ pc = "classify"
    /\ LET r == ClassifyHandlers(IF pass = 1 THEN all_handlers ELSE first_output)
       IN IF r.ok
          THEN /\ call_handlers' = r.value.values
               /\ warnings' = r.value.warnings
               /\ pc' = "classified"
               /\ exc' = exc
          ELSE /\ exc' = r.exc
               /\ pc' = "raised"
               /\ warnings' = r.warnings
               /\ UNCHANGED call_handlers
    /\ UNCHANGED <<all_handlers, schedules, schedule_set_members_map, concatenated_list,
                   resolved_lists, first_output, pass, fetched_ids, report,
                   xml_doc, xml_events, xml_name, xml_cleared, xml_records,
                   xml_malformed>>

\* the classification is given its own output as input
ClassifyAgain ==
    /\ pc = "classified"
    /\ pass = 1
    /\ first_output' = call_handlers
    /\ call_handlers' = <<>>
    /\ warnings' = <<>>
    /\ pass' = 2
    /\ pc' = "classify"
    /\ UNCHANGED <<all_handlers, schedules, schedule_set_members_map, concatenated_list,
                   resolved_lists, exc, fetched_ids, report,
                   xml_doc, xml_events, xml_name, xml_cleared, xml_records,
                   xml_malformed>>

NextClassify == Classify \/ ClassifyAgain

SpecClassify == InitClassify /\ [][NextClassify]_vars

(***************************************************************************)
(* The main script.                                                        *)
(***************************************************************************)
MainRawHandlers ==
    { [DisplayName |-> "Operator", ScheduleSetObjectId |-> "SS1"],
      [DisplayName |-> "Sales", DtmfAccessId |-> "100", ScheduleSetObjectId |-> "SS2"],
      [DisplayName |-> "Sales", ScheduleSetObjectId |-> "SS1"],
      [DisplayName |-> "Sales", Undeletable |-> None] }

MainSchedules ==
    { [ObjectId |-> "SC1", DisplayName |-> "Business Hours"],
      [ObjectId |-> "SC1", DisplayName |-> None],
      [DisplayName |-> "Holidays"] }

MainMembers ==
    { [ScheduleObjectId |-> "SC1", Exclude |-> "false"],
      [ScheduleObjectId |-> "SC2", Exclude |-> "TRUE"] }

\* what a fetch returns: the decoded records of a 200 response, and the empty
\* list for any other status (HttpError stands for all of them) and for a
\* RequestException
Fetched(status, records) == IF status = HttpOk THEN records ELSE <<>>

Statuses == {HttpOk, HttpError}

InitMain ==
    /\ pc = "start"
    /\ all_handlers = <<>>
    /\ pass = 0
    /\ call_handlers = <<>>
    /\ schedules = <<>>
    /\ schedule_set_members_map = <<>>
    /\ concatenated_list = <<>>
    /\ resolved_lists = <<>>
    /\ exc = "none"
    /\ warnings = <<>>
    /\ first_output = <<>>
    /\ fetched_ids = {}
    /\ report = <<>>
    /\ xml_doc = <<>>
    /\ xml_events = <<>>
    /\ xml_name = <<>>
    /\ xml_cleared = {}
    /\ xml_records = <<>>
    /\ xml_malformed = FALSE

\* call_handlers = get_call_handlers()
GetCallHandlers ==
    /\ pc = "start"
    /\ \E status \in Statuses, records \in SeqsUpTo(MainRawHandlers, MaxHandlers) :
         LET r == ClassifyHandlers(records)
         IN IF status # HttpOk
            THEN /\ call_handlers' = <<>>
                 /\ pc' = "get_schedules"
                 /\ UNCHANGED <<all_handlers, warnings, exc>>
            ELSE IF r.ok
            THEN /\ all_handlers' = records
                 /\ call_handlers' = r.value.values
                 /\ warnings' = r.value.warnings
                 /\ pc' = "get_schedules"
                 /\ exc' = exc
            ELSE /\ all_handlers' = records
                 /\ exc' = r.exc
                 /\ pc' = "raised"
                 /\ warnings' = r.warnings
                 /\ UNCHANGED call_handlers
    /\ UNCHANGED <<schedules, schedule_set_members_map, concatenated_list,
                   resolved_lists, first_output, pass, fetched_ids, report,
                   xml_doc, xml_events, xml_name, xml_cleared, xml_records,
                   xml_malformed>>

\* schedules = get_schedules()
GetSchedules ==
    /\ pc = "get_schedules"
    /\ \E status \in Statuses, records \in SeqsUpTo(MainSchedules, MaxSchedules) :
         schedules' = Fetched(status, records)
    /\ pc' = "branch"
    /\ UNCHANGED <<all_handlers, call_handlers, schedule_set_members_map,
                   concatenated_list, resolved_lists, exc, warnings, first_output,
                   pass, fetched_ids, report,
                   xml_doc, xml_events, xml_name, xml_cleared, xml_records,
                   xml_malformed>>

\* the spec's condition for going on: some data was retrieved
HaveSomeData(handlers, scheds) == handlers # <<>> \/ scheds # <<>>

\* if call_handlers and schedules:
HaveRequiredData(handlers, scheds) == handlers # <<>> /\ scheds # <<>>

\* unique_schedule_set_ids of get_all_schedule_set_members
UniqueScheduleSetIds(handlers) ==
    { Get(handlers[i], "ScheduleSetObjectId", None) : i \in 1..Len(handlers) }
        \ {None, ""}

\* if call_handlers and schedules: get_all_schedule_set_members(call_handlers),
\* one fetch for each unique schedule-set id
GetAllScheduleSetMembers ==
    /\ pc = "branch"
    /\ HaveRequiredData(call_handlers, schedules)
    /\ fetched_ids' = UniqueScheduleSetIds(call_handlers)
    /\ \E status \in [UniqueScheduleSetIds(call_handlers) -> Statuses],
          records \in [UniqueScheduleSetIds(call_handlers) ->
                          SeqsUpTo(MainMembers, MaxMembers)] :
         schedule_set_members_map' =
             [id \in UniqueScheduleSetIds(call_handlers) |->
                 Fetched(status[id], records[id])]
    /\ pc' = "resolve"
    /\ UNCHANGED <<all_handlers, call_handlers, schedules, concatenated_list,
                   resolved_lists, exc, warnings, first_output, pass, report,
                   xml_doc, xml_events, xml_name, xml_cleared, xml_records,
                   xml_malformed>>

\* else: logger.error("Could not retrieve required data. ...")
Abandon ==
    /\ pc = "branch"
    /\ ~HaveRequiredData(call_handlers, schedules)
    /\ pc' = "abandoned"
    /\ UNCHANGED <<all_handlers, call_handlers, schedules, schedule_set_members_map,
                   concatenated_list, resolved_lists, exc, warnings, first_output,
                   pass, fetched_ids, report,
                   xml_doc, xml_events, xml_name, xml_cleared, xml_records,
                   xml_malformed>>

\* the lines of call_handlers_and_schedules.csv
ReportLines(rows) ==
    <<"CallHandlerName,Schedule">> \o
    [i \in 1..Len(rows) |->
        Format(rows[i].CallHandlerName) \o "," \o Format(rows[i].Schedule)]

WriteReport ==
    /\ pc = "resolved"
    /\ report' = ReportLines(concatenated_list)
    /\ pc' = "done"
    /\ UNCHANGED <<all_handlers, call_handlers, schedules, schedule_set_members_map,
                   concatenated_list, resolved_lists, exc, warnings, first_output,
                   pass, fetched_ids,
                   xml_doc, xml_events, xml_name, xml_cleared, xml_records,
                   xml_malformed>>

NextMain ==
    \/ GetCallHandlers
    \/ GetSchedules
    \/ GetAllScheduleSetMembers
    \/ Abandon
    \/ Resolve
    \/ WriteReport

SpecMain == InitMain /\ [][NextMain]_vars

(***************************************************************************)
(* parse_large_xml.  A tag is the sequence of its characters, as           *)
(* ElementTree gives it: "{uri}local" for a namespaced element.  The       *)
(* document is a root element, its child elements and their children; an   *)
(* element is named by its path from the root.  iterparse delivers one     *)
(* 'end' event for each element, children before their parent.             *)
(***************************************************************************)
TagFoo == <<"F", "o", "o">>
TagNsFoo == <<"{", "n", "}", "F", "o", "o">>
TagXFoo == <<"X", "F", "o", "o">>
TagBar == <<"B", "a", "r">>
TagA == <<"a">>
TagNsA == <<"{", "n", "}", "a">>
TagRoot == <<"R", "o", "o", "t">>

\* str.endswith
EndsWith(s, suffix) ==
    /\ Len(s) >= Len(suffix)
    /\ SubSeq(s, Len(s) - Len(suffix) + 1, Len(s)) = suffix

\* tag.split('}')[-1]: what follows the last '}'
RECURSIVE LocalName(_)
LocalName(tag) ==
    IF \E i \in 1..Len(tag) : tag[i] = "}"
    THEN LocalName(Tail(tag))
    ELSE tag

Element(tag, text, children) == [tag |-> tag, text |-> text, children |-> children]

ElementAt(root, path) ==
    IF Len(path) = 0 THEN root
    ELSE IF Len(path) = 1 THEN root.children[path[1]]
    ELSE root.children[path[1]].children[path[2]]

\* the 'end' events of the element at `path` and of all below it
RECURSIVE EndEventsFrom(_, _, _)
EndEventsFrom(root, path, k) ==
    \* events of the children k.. of the element, then the element itself
    IF k > Len(ElementAt(root, path).children) THEN <<path>>
    ELSE EndEventsFrom(root, Append(path, k), 1) \o EndEventsFrom(root, path, k + 1)

EndEvents(root) == EndEventsFrom(root, <<>>, 1)

\* record = {child.tag.split('}')[-1]: child.text for child in elem}; a child
\* that was cleared has lost its text
RECURSIVE RecordOf(_, _, _, _)
RecordOf(root, path, cleared, n) ==
    \* the first n children; a later child with the same key replaces the value
    IF n = 0 THEN <<>>
    ELSE LET child == ElementAt(root, Append(path, n))
             text == IF Append(path, n) \in cleared THEN None ELSE child.text
         IN (LocalName(child.tag) :> text) @@ RecordOf(root, path, cleared, n - 1)

Fields ==
    { Element(TagA, "1", <<>>),
      Element(TagNsA, None, <<>>),
      Element(TagFoo, "2", <<>>) }

Items ==
    { Element(tag, None, fields) :
        tag \in {TagFoo, TagNsFoo, TagXFoo, TagBar},
        fields \in SeqsUpTo(Fields, MaxFields) }

Documents == { Element(TagRoot, None, items) : items \in SeqsUpTo(Items, MaxItems) }

\* the 'end' events iterparse delivers: all of them for a well-formed
\* document; for a document that stops being well-formed after some element,
\* those up to there, and then a ParseError.  The ParseError can also come
\* after the last end event (text or an element after the document element).
Prefixes(events) == { SubSeq(events, 1, k) : k \in 0..Len(events) }

InitDecode ==
    /\ pc = "parsing"
    /\ xml_doc \in Documents
    /\ xml_events \in Prefixes(EndEvents(xml_doc))
    /\ xml_malformed \in BOOLEAN
    /\ xml_events # EndEvents(xml_doc) => xml_malformed
    /\ xml_name = TagFoo
    /\ xml_cleared = {}
    /\ xml_records = <<>>
    /\ all_handlers = <<>>
    /\ pass = 0
    /\ call_handlers = <<>>
    /\ schedules = <<>>
    /\ schedule_set_members_map = <<>>
    /\ concatenated_list = <<>>
    /\ resolved_lists = <<>>
    /\ exc = "none"
    /\ warnings = <<>>
    /\ first_output = <<>>
    /\ fetched_ids = {}
    /\ report = <<>>

\* lines 38-44: the next 'end' event; an element whose tag ends with
\* element_name gives a record, and the generator is suspended at the yield
\* with that element not yet cleared
ParseEvent ==
    /\ pc = "parsing"
    /\ xml_events # <<>>
    /\ LET path == Head(xml_events)
           elem == ElementAt(xml_doc, path)
       IN IF EndsWith(elem.tag, xml_name)
          THEN /\ xml_records' = Append(xml_records,
                     RecordOf(xml_doc, path, xml_cleared, Len(elem.children)))
               /\ pc' = "yielded"
               /\ UNCHANGED xml_events
          ELSE /\ xml_events' = Tail(xml_events)
               /\ UNCHANGED <<xml_records, pc>>
    /\ UNCHANGED <<xml_doc, xml_name, xml_cleared, xml_malformed,
                   all_handlers, call_handlers, schedules,
                   schedule_set_members_map, concatenated_list, resolved_lists, exc,
                   warnings, first_output, pass, fetched_ids, report>>

\* line 45: the consumer asks for the next record; elem.clear() runs and the
\* loop goes on
ParseResume ==
    /\ pc = "yielded"
    /\ xml_cleared' = xml_cleared \cup {Head(xml_events)}
    /\ xml_events' = Tail(xml_events)
    /\ pc' = "parsing"
    /\ UNCHANGED <<xml_doc, xml_name, xml_records, xml_malformed,
                   all_handlers, call_handlers, schedules,
                   schedule_set_members_map, concatenated_list, resolved_lists, exc,
                   warnings, first_output, pass, fetched_ids, report>>

\* the consumer stops at a record: the generator is closed at the yield and
\* line 45 never runs
ParseClose ==
    /\ pc = "yielded"
    /\ pc' = "closed"
    /\ UNCHANGED <<xml_doc, xml_events, xml_name, xml_cleared, xml_records,
                   xml_malformed, all_handlers, call_handlers, schedules,
                   schedule_set_members_map, concatenated_list, resolved_lists, exc,
                   warnings, first_output, pass, fetched_ids, report>>

\* line 46: the event stream is exhausted, the generator returns
ParseEnd ==
    /\ pc = "parsing"
    /\ xml_events = <<>>
    /\ ~xml_malformed
    /\ pc' = "parsed"
    /\ UNCHANGED <<xml_doc, xml_events, xml_name, xml_cleared, xml_records,
                   xml_malformed, all_handlers, call_handlers, schedules,
                   schedule_set_members_map, concatenated_list, resolved_lists, exc,
                   warnings, first_output, pass, fetched_ids, report>>

\* lines 47-48: iterparse raises ParseError; it is logged and the generator
\* returns with the records yielded so far
ParseFails ==
    /\ pc = "parsing"
    /\ xml_events = <<>>
    /\ xml_malformed
    /\ pc' = "parse_error"
    /\ UNCHANGED <<xml_doc, xml_events, xml_name, xml_cleared, xml_records,
                   xml_malformed, all_handlers, call_handlers, schedules,
                   schedule_set_members_map, concatenated_list, resolved_lists, exc,
                   warnings, first_output, pass, fetched_ids, report>>

NextDecode == ParseEvent \/ ParseResume \/ ParseClose \/ ParseEnd \/ ParseFails

SpecDecode == InitDecode /\ [][NextDecode]_vars

(***************************************************************************)
(* Properties of resolve_schedules (SpecResolve).                          *)
(***************************************************************************)
Range(f) == { f[x] : x \in DOMAIN f }

\* the spellings of "true" in any case among the texts of the model
TrueSpellings == {"true", "TRUE", "True"}

\* a member the specification calls excluded
IsExcludedMember(member) ==
    "Exclude" \in DOMAIN member /\ member["Exclude"] \in TrueSpellings

\* the members of a handler's schedule set: none when the handler has no
\* schedule-set id or the index has no such key
MembersOf(handler) ==
    IF "ScheduleSetObjectId" \in DOMAIN handler
       /\ handler["ScheduleSetObjectId"] \in DOMAIN schedule_set_members_map
    THEN schedule_set_members_map[handler["ScheduleSetObjectId"]]
    ELSE <<>>

KeptMembers(handler) == SelectSeq(MembersOf(handler), LAMBDA m : ~IsExcludedMember(m))

\* the display name of the last schedule with this ObjectId, or the sentinel
NameOfSchedule(id) ==
    LET with == { k \in 1..Len(schedules) :
                    "ObjectId" \in DOMAIN schedules[k] /\ schedules[k]["ObjectId"] = id }
    IN IF with = {} THEN "Unknown Schedule"
       ELSE schedules[CHOOSE k \in with : \A l \in with : l <= k]["DisplayName"]

NameOfMember(member) == NameOfSchedule(member["ScheduleObjectId"])

\* the names separated by ", ", from the left
RECURSIVE CommaSeparated(_)
CommaSeparated(names) ==
    IF Len(names) = 1 THEN names[1]
    ELSE names[1] \o ", " \o CommaSeparated(Tail(names))

\* C1: for every input, resolve_schedules returns one row for each handler, in
\* input order, the row's CallHandlerName being the handler's DisplayName.
C1_OneRowPerHandler ==
    pc # "resolve" =>
        /\ pc = "resolved"
        /\ Len(concatenated_list) = Len(call_handlers)
        /\ \A i \in 1..Len(call_handlers) :
              "DisplayName" \in DOMAIN call_handlers[i] =>
                  concatenated_list[i].CallHandlerName = call_handlers[i]["DisplayName"]

\* C2: no exception propagates out of resolve_schedules, whatever is missing
\* from the schedule and member records: every handler still gets its row.
C2_NoExceptionPropagates ==
    pc # "resolve" => exc = "none" /\ DOMAIN concatenated_list = DOMAIN call_handlers

\* the schedule and member records carry the references the resolution
\* subscripts (lines 154 and 175) and every schedule has a name
CompleteReferences ==
    /\ \A k \in 1..Len(schedules) :
          /\ {"ObjectId", "DisplayName"} \subseteq DOMAIN schedules[k]
          /\ schedules[k]["DisplayName"] # None
    /\ \A id \in DOMAIN schedule_set_members_map :
          \A j \in 1..Len(schedule_set_members_map[id]) :
              "ScheduleObjectId" \in DOMAIN schedule_set_members_map[id][j]

\* C4: whatever the Exclude values of the members are, the resolved list of
\* every handler is made of the schedules of the members of its schedule set
\* whose Exclude is not "true" in any case (absent, or any other value, null
\* included), one entry for each in member order, and has no entry for a
\* member whose Exclude is "true" in any case.  Stated for records that are
\* complete in their other fields.
C4_ExcludeDecidesInclusion ==
    (pc # "resolve" /\ CompleteReferences) =>
        \A i \in 1..Len(call_handlers) :
            LET kept == KeptMembers(call_handlers[i])
            IN /\ i \in DOMAIN resolved_lists
               /\ resolved_lists[i] = [k \in 1..Len(kept) |-> NameOfMember(kept[k])]

\* the cases in which the specification gives the sentinel
NoScheduleCase(handler) ==
    \/ "ScheduleSetObjectId" \notin DOMAIN handler
    \/ handler["ScheduleSetObjectId"] \in {"", None}
    \/ handler["ScheduleSetObjectId"] \notin DOMAIN schedule_set_members_map
    \/ schedule_set_members_map[handler["ScheduleSetObjectId"]] = <<>>
    \/ \A j \in 1..Len(MembersOf(handler)) : IsExcludedMember(MembersOf(handler)[j])

\* C5: in the rows resolve_schedules returns, a handler's Schedule is the
\* sentinel "No Schedule" exactly when its schedule-set id is absent or empty,
\* is no key of the member index, maps to no member, or all its members are
\* excluded.
C5_NoScheduleCases ==
    pc = "resolved" =>
        \A i \in 1..Len(call_handlers) :
            (concatenated_list[i].Schedule = "No Schedule")
                <=> NoScheduleCase(call_handlers[i])

\* a handler all of whose members are excluded and a handler without a
\* schedule-set id both got the sentinel
C5_Witness ==
    /\ pc = "resolved"
    /\ \E i, k \in 1..Len(call_handlers) :
          /\ MembersOf(call_handlers[i]) # <<>>
          /\ KeptMembers(call_handlers[i]) = <<>>
          /\ concatenated_list[i].Schedule = "No Schedule"
          /\ "ScheduleSetObjectId" \notin DOMAIN call_handlers[k]
          /\ concatenated_list[k].Schedule = "No Schedule"

\* C6: in the rows resolve_schedules returns, the Schedule of a handler with a
\* member that is not excluded is the ", "-join, in member order, of one entry
\* for each such member: the DisplayName of the last schedule with the
\* member's ScheduleObjectId, or "Unknown Schedule" when there is none.
C6_JoinedInMemberOrder ==
    pc = "resolved" =>
        \A i \in 1..Len(call_handlers) :
            LET kept == KeptMembers(call_handlers[i])
            IN kept # <<>> =>
                  concatenated_list[i].Schedule =
                      CommaSeparated([j \in 1..Len(kept) |-> NameOfMember(kept[j])])

\* two schedules share the id SC1 and the row shows the later one, then the
\* sentinel of a schedule that is not in the list
C6_Witness ==
    /\ pc = "resolved"
    /\ Len(schedules) = 2
    /\ schedules[1]["ObjectId"] = schedules[2]["ObjectId"]
    /\ \E i \in 1..Len(call_handlers) :
          concatenated_list[i].Schedule = "Weekend, Unknown Schedule"

(***************************************************************************)
(* Properties of the classification (SpecClassify).                        *)
(***************************************************************************)
\* s is t with some elements left out, the others in the same order
IsSubsequence(s, t) ==
    \E f \in [1..Len(s) -> 1..Len(t)] :
        /\ \A a, b \in 1..Len(s) : a < b => f[a] < f[b]
        /\ \A a \in 1..Len(s) : s[a] = t[f[a]]

\* C7: the classification keeps the order of its input and is idempotent:
\* whenever it returns, its output is a subsequence of its input, and given
\* its own output it returns that output unchanged.
C7_OrderPreservingIdempotent ==
    /\ pc = "classified" => IsSubsequence(call_handlers, all_handlers)
    /\ pass = 2 /\ pc # "classify" => pc = "classified" /\ call_handlers = first_output

\* the second pass returned the two handlers the first pass kept of three
C7_Witness ==
    /\ pc = "classified"
    /\ pass = 2
    /\ Len(all_handlers) = 3
    /\ Len(call_handlers) = 2
    /\ call_handlers[1] # call_handlers[2]

\* the selection predicate as the specification states it
IsSelected(handler) ==
    \/ "Undeletable" \in DOMAIN handler /\ handler["Undeletable"] \in TrueSpellings
    \/ "DtmfAccessId" \in DOMAIN handler /\ handler["DtmfAccessId"] \notin {"", None}
    \/ /\ "DisplayName" \in DOMAIN handler
       /\ handler["DisplayName"] \in {"Operator", " Operator ", "operator"}

\* C8: a handler is in the classified output only if it is undeletable, has a
\* DtmfAccessId or has a system name, and classifying records that are none of
\* the three does not fail: they are left out.
C8_SelectionNeverFails ==
    /\ pc = "classified" =>
          \A i \in 1..Len(call_handlers) : IsSelected(call_handlers[i])
    /\ (pass = 1 /\ \A i \in 1..Len(all_handlers) : ~IsSelected(all_handlers[i])) =>
          /\ pc # "raised"
          /\ pc = "classified" => call_handlers = <<>>

\* the composite key of the specification: an absent or null DtmfAccessId
\* counts as the empty string
KeyOf(handler) ==
    Lower(Strip(Get(handler, "DisplayName", ""))) \o "|" \o
        (IF "DtmfAccessId" \in DOMAIN handler /\ handler["DtmfAccessId"] # None
         THEN handler["DtmfAccessId"] ELSE "")

\* C9: no two handlers of the classified output share the composite key; the
\* handler kept is the first selected one with its key, and one warning is
\* logged for each selected handler that is dropped.
C9_UniqueCompositeKeys ==
    (pc = "classified" /\ pass = 1) =>
        LET selected == SelectSeq(all_handlers, IsSelected)
        IN /\ \A i, j \in 1..Len(call_handlers) :
                 i # j => KeyOf(call_handlers[i]) # KeyOf(call_handlers[j])
           /\ \A i \in 1..Len(call_handlers) :
                 \E k \in 1..Len(selected) :
                    /\ selected[k] = call_handlers[i]
                    /\ \A l \in 1..(k - 1) : KeyOf(selected[l]) # KeyOf(selected[k])
           /\ Len(warnings) = Len(selected) - Len(call_handlers)

(***************************************************************************)
(* Properties of the main script (SpecMain).                               *)
(***************************************************************************)
\* C3 as stated: the run is abandoned only when the handler list and the
\* schedule list are both empty.
C3_AbandonedOnlyWhenBothEmpty ==
    pc = "abandoned" => call_handlers = <<>> /\ schedules = <<>>

\* C3 as amended: after the two fetches the run is abandoned, with no member
\* fetch, no resolve and no report, whenever the handler list or the schedule
\* list is empty; get_all_schedule_set_members and resolve_schedules are
\* reached, and a report is written, only when both lists are non-empty.
C3_AbandonedWhenEitherEmpty ==
    /\ pc = "branch" =>
          /\ (ENABLED Abandon) <=> (call_handlers = <<>> \/ schedules = <<>>)
          /\ (ENABLED GetAllScheduleSetMembers) <=>
                 (call_handlers # <<>> /\ schedules # <<>>)
    /\ pc = "abandoned" =>
          /\ call_handlers = <<>> \/ schedules = <<>>
          /\ fetched_ids = {} /\ schedule_set_members_map = <<>>
          /\ concatenated_list = <<>> /\ report = <<>>
    /\ (pc \in {"resolve", "resolved", "done"} \/ report # <<>>) =>
          call_handlers # <<>> /\ schedules # <<>>

\* the run was abandoned with handlers classified and no schedule
C3_Witness ==
    /\ pc = "abandoned"
    /\ call_handlers # <<>>
    /\ schedules = <<>>

(***************************************************************************)
(* Properties of parse_large_xml (SpecDecode).                             *)
(***************************************************************************)
\* the elements whose local tag is element_name, in the order of their ends
MatchingElements ==
    SelectSeq(EndEvents(xml_doc),
              LAMBDA path : LocalName(ElementAt(xml_doc, path).tag) = xml_name)

\* C10: parse_large_xml yields one record for each element whose tag without
\* its namespace is element_name and none for any other element; the fields
\* of a record are the local tags of the element's children.
C10_OneRecordPerNamedElement ==
    pc = "parsed" =>
        /\ Len(xml_records) = Len(MatchingElements)
        /\ \A k \in 1..Len(xml_records) :
              DOMAIN xml_records[k] =
                  { LocalName(child.tag) :
                      child \in Range(ElementAt(xml_doc, MatchingElements[k]).children) }

====
